---- MODULE Spec2Model ----
(***************************************************************************)
(* Model of the PostDisplay component (src/unnamed/part_001,               *)
(* PostDisplay.tsx): its three useState cells, the useEffect that starts   *)
(* one fetch attempt per (apiBaseUrl, postId) identity, the cleanup that   *)
(* aborts the attempt's AbortController, and the continuation of           *)
(* fetchPost after each of its two awaits (fetch, response.json).          *)
(*                                                                         *)
(* The transport (global fetch) is external: every pending attempt may     *)
(* settle with any outcome at any time, whether or not its signal was      *)
(* aborted.  Only a rejection named 'AbortError' is tied to the signal:    *)
(* it is produced for an attempt whose controller has been aborted.        *)
(*                                                                         *)
(* Model of ApiDataService (src/src/api-data/api-data.service.ts): the     *)
(* environment variable API_BASE_URL, the instances built by the           *)
(* constructor and by createWithClient, the invocations of fetchPostById   *)
(* and fetchAllPosts suspended at their await, and the GETs made on the    *)
(* http client.  SpecService is its specification.                         *)
(*                                                                         *)
(* Model of ApiDataController (same file, lines 134-188): the requests     *)
(* GET /api/posts and GET /api/posts/:id, the ParseIntPipe bound to the    *)
(* id parameter, and the delegation to the injected ApiDataService.        *)
(* SpecController is its specification.                                    *)
(***************************************************************************)
EXTENDS Integers, Sequences, FiniteSets, TLC

VARIABLES
    lifecycle,   \* "init" (constructed, effect not yet run) | "mounted" | "unmounted"
    apiBaseUrl,  \* prop apiBaseUrl of the current render
    postId,      \* prop postId of the current render
    post,        \* useState<ApiPost | null>
    loading,     \* useState<boolean>
    error,       \* useState<string | null>
    attempts,    \* one record per run of the effect: its url, its controller, its position
    calls,       \* the calls made to fetch, in order: url and signal
    renders,     \* history: the identity of every effect run (mount or dependency change)
    applied,     \* history: attempts whose result was stored by setPost or setError,
                 \*          each with whether it was the current attempt at that time
    last,        \* history: the handler that ran last
    env,         \* process.env["API_BASE_URL"]: Null (unset) or a string
    services,    \* the ApiDataService instances, in order of construction
    invocations, \* the calls of fetchPostById / fetchAllPosts, in order
    gets,        \* the calls made to httpClient.get, in order: invocation and url
    requests     \* the HTTP requests routed to ApiDataController, in order

displayVars == <<lifecycle, apiBaseUrl, postId, post, loading, error,
                 attempts, calls, renders, applied, last>>

svcVars == <<env, services, invocations, gets, requests>>

vars == <<lifecycle, apiBaseUrl, postId, post, loading, error,
          attempts, calls, renders, applied, last,
          env, services, invocations, gets, requests>>

view == <<loading, error, post>>

-----------------------------------------------------------------------------
(* Bounds and input domains *)

MaxAttempts == 3

\* the (apiBaseUrl, postId) pairs the component is rendered with
Identities ==
    { <<"http://localhost:3000/api", 1>>,
      <<"http://test.api", 1>>,
      <<"http://test.api", 999>> }

Posts ==
    { [userId |-> 1, id |-> 1, title |-> "Mocked Post Title",
       body |-> "Mocked post body content"],
      [userId |-> 7, id |-> 999, title |-> "Other Title", body |-> "Other body"] }

\* non-OK responses: <<status, statusText>> (statusText is empty over HTTP/2)
NotOkResponses == { <<404, "Not Found">>, <<500, "">> }

\* values a promise can reject with
NetworkError == [isError |-> TRUE, name |-> "Error", message |-> "Network failure"]
EmptyError   == [isError |-> TRUE, name |-> "Error", message |-> ""]
AbortError   == [isError |-> TRUE, name |-> "AbortError",
                 message |-> "The operation was aborted."]
NonError     == [isError |-> FALSE, name |-> "", message |-> ""]

Rejections == {NetworkError, EmptyError, AbortError, NonError}

\* values response.json() can reject with: the body stream failed or was aborted
JsonRejections == {NetworkError, AbortError}

\* values of process.env["API_BASE_URL"]: unset, or a url
EnvValues == { <<>>, <<"http://env.api">> }

MaxInvocations == 2

\* the optional baseUrl argument of createWithClient: absent, or a url
BaseUrlArgs == { <<>>, <<"http://arg.api">> }

\* the postId arguments of fetchPostById
PostIdArgs == {1, 999}

mockApiPost ==
    [userId |-> 1, id |-> 1, title |-> "Test Post Title",
     body |-> "Test post body content"]

secondApiPost == [mockApiPost EXCEPT !.id = 2]

\* response.data of a GET of one post
PostBodies == {mockApiPost, secondApiPost}

\* response.data of a GET of the list of posts
ListBodies == { <<mockApiPost, secondApiPost>>, <<secondApiPost, mockApiPost>> }


\* values httpClient.get can reject with
GetRejections ==
    { [isError |-> TRUE, name |-> "Error", message |-> "Network Error"],
      [isError |-> TRUE, name |-> "Error", message |-> "Connection refused"],
      NonError }

-----------------------------------------------------------------------------
(* Values *)

Null == <<>>

Some(v) == <<v>>

\* JavaScript truthiness of a string | null and of an object | null
TruthyString(s) == s # Null /\ s[1] # ""

TruthyObject(o) == o # Null

DefaultApiBaseUrl == "http://localhost:3000/api"

DefaultPostId == 1

\* (mutation of Url: the path segment is left out)
UrlNoPosts(base, id) == base \o "/" \o ToString(id)

Url(base, id) == base \o "/posts/" \o ToString(id)

\* (mutation of HttpErrorMessage: the status text is left out)
HttpErrorMessageNoText(status, statusText) == "HTTP " \o ToString(status)

HttpErrorMessage(status, statusText) ==
    "HTTP " \o ToString(status) \o ": " \o statusText

\* new Error(`HTTP ...`) thrown for a response that is not ok
HttpError(status, statusText) ==
    [isError |-> TRUE, name |-> "Error",
     message |-> HttpErrorMessage(status, statusText)]

\* (mutation of Render: a stored post is shown before the error is looked at)
RenderPostFirst(l, e, p) ==
    IF l THEN [testid |-> "loading", text |-> <<"Loading...">>]
    ELSE IF TruthyObject(p)
         THEN [testid |-> "post-display", text |-> <<p[1].title, p[1].body>>]
    ELSE IF TruthyString(e) THEN [testid |-> "error", text |-> <<"Error: " \o e[1]>>]
    ELSE [testid |-> "empty", text |-> <<"No post data">>]

\* the component's return value, as data-testid and text content
Render(l, e, p) ==
    IF l THEN [testid |-> "loading", text |-> <<"Loading...">>]
    ELSE IF TruthyString(e) THEN [testid |-> "error", text |-> <<"Error: " \o e[1]>>]
    ELSE IF ~TruthyObject(p) THEN [testid |-> "empty", text |-> <<"No post data">>]
    ELSE [testid |-> "post-display", text |-> <<p[1].title, p[1].body>>]

Rendered == Render(loading, error, post)

-----------------------------------------------------------------------------
(* State setters: React drops updates of a component that is unmounted *)

SetState(cur, new) == IF lifecycle = "mounted" THEN new ELSE cur

\* the attempt started by the latest effect run of a mounted component
IsCurrent(a) == lifecycle = "mounted" /\ a = Len(attempts)

Pending(a, where) == a \in 1..Len(attempts) /\ attempts[a].pc = where

\* (mutation of Cleanup: a controller whose attempt has completed is not aborted)
CleanupIfPending(atts) ==
    IF atts = <<>> \/ atts[Len(atts)].pc = "done" THEN atts
    ELSE [atts EXCEPT ![Len(atts)].aborted = TRUE]

\* (mutation of Cleanup: the cleanup does not abort the controller)
CleanupNoAbort(atts) == atts

\* controller.abort() of the latest effect run
Cleanup(atts) ==
    IF atts = <<>> THEN atts
    ELSE [atts EXCEPT ![Len(atts)].aborted = TRUE]

\* new AbortController(): a controller not used by any earlier attempt
NewController(atts) == Len(atts) + 1

\* (mutation of Reported: the name of the Error is not looked at)
ReportedAnyError(err) == err.isError

\* the condition of the catch block
Reported(err) == err.isError /\ err.name # "AbortError"

\* (mutation of Settled: a value that is not an Error escapes the catch block)
SettledRethrow(err) == IF err.isError THEN "done" ELSE "rejected"

\* how the promise of fetchPost settles after a failure: the catch block takes
\* every thrown value and rethrows none, so the promise is fulfilled ("done")
Settled(err) == "done"

\* catch (err) { ... } finally { setLoading(false) }
CatchFinally(a, op, err) ==
    /\ error' = IF Reported(err) THEN SetState(error, Some(err.message)) ELSE error
    /\ loading' = SetState(loading, FALSE)
    /\ post' = post
    /\ attempts' = [attempts EXCEPT ![a].pc = Settled(err)]
    /\ applied' = IF Reported(err) /\ lifecycle = "mounted"
                  THEN applied \cup {[attempt |-> a, current |-> IsCurrent(a)]}
                  ELSE applied
    /\ last' = [op |-> op, attempt |-> a, current |-> IsCurrent(a)]
    /\ UNCHANGED <<lifecycle, apiBaseUrl, postId, calls, renders>>
    /\ UNCHANGED svcVars

\* the body of the effect up to the first await of fetchPost
RunEffect(atts, base, id) ==
    /\ loading' = TRUE
    /\ error' = Null
    /\ post' = post
    /\ attempts' = Append(atts, [url |-> Url(base, id),
                                 controller |-> NewController(atts),
                                 aborted |-> FALSE, pc |-> "fetch"])
    /\ calls' = Append(calls, [url |-> Url(base, id),
                               signal |-> NewController(atts)])
    /\ renders' = Append(renders, <<base, id>>)
    /\ apiBaseUrl' = base
    /\ postId' = id
    /\ applied' = applied

-----------------------------------------------------------------------------
(* Actions *)

Init ==
    /\ lifecycle = "init"
    /\ apiBaseUrl = DefaultApiBaseUrl
    /\ postId = DefaultPostId
    /\ post = Null
    /\ loading = TRUE
    /\ error = Null
    /\ attempts = <<>>
    /\ calls = <<>>
    /\ renders = <<>>
    /\ applied = {}
    /\ last = [op |-> "none", attempt |-> 0, current |-> FALSE]
    /\ env = Null
    /\ services = <<>>
    /\ invocations = <<>>
    /\ gets = <<>>
    /\ requests = <<>>

\* first render and first run of the effect
Mount(base, id) ==
    /\ lifecycle = "init"
    /\ lifecycle' = "mounted"
    /\ RunEffect(attempts, base, id)
    /\ last' = [op |-> "Mount", attempt |-> 1, current |-> TRUE]
    /\ UNCHANGED svcVars

\* re-render with a changed dependency: cleanup of the previous effect, then the effect
ChangeIdentity(base, id) ==
    /\ lifecycle = "mounted"
    /\ <<base, id>> # <<apiBaseUrl, postId>>
    /\ Len(attempts) < MaxAttempts
    /\ RunEffect(Cleanup(attempts), base, id)
    /\ last' = [op |-> "ChangeIdentity", attempt |-> Len(attempts) + 1,
                current |-> TRUE]
    /\ UNCHANGED lifecycle
    /\ UNCHANGED svcVars

\* the component is removed: cleanup of the effect
Unmount ==
    /\ lifecycle = "mounted"
    /\ lifecycle' = "unmounted"
    /\ attempts' = Cleanup(attempts)
    /\ last' = [op |-> "Unmount", attempt |-> Len(attempts), current |-> FALSE]
    /\ UNCHANGED <<apiBaseUrl, postId, post, loading, error, calls, renders, applied>>
    /\ UNCHANGED svcVars

\* fetch resolves with response.ok: fetchPost goes on to await response.json()
FetchResolveOk(a) ==
    /\ Pending(a, "fetch")
    /\ attempts' = [attempts EXCEPT ![a].pc = "json"]
    /\ last' = [op |-> "FetchResolveOk", attempt |-> a, current |-> IsCurrent(a)]
    /\ UNCHANGED <<lifecycle, apiBaseUrl, postId, post, loading, error,
                   calls, renders, applied>>
    /\ UNCHANGED svcVars

\* fetch resolves with !response.ok: throw, catch, finally
FetchResolveNotOk(a, status, statusText) ==
    /\ Pending(a, "fetch")
    /\ CatchFinally(a, "FetchResolveNotOk", HttpError(status, statusText))

\* fetch rejects: catch, finally
FetchReject(a, err) ==
    /\ Pending(a, "fetch")
    /\ err = AbortError => attempts[a].aborted
    /\ CatchFinally(a, "FetchReject", err)

\* response.json() resolves: setPost(data), finally
JsonResolve(a, data) ==
    /\ Pending(a, "json")
    /\ post' = SetState(post, Some(data))
    /\ loading' = SetState(loading, FALSE)
    /\ error' = error
    /\ attempts' = [attempts EXCEPT ![a].pc = "done"]
    /\ applied' = IF lifecycle = "mounted"
                  THEN applied \cup {[attempt |-> a, current |-> IsCurrent(a)]}
                  ELSE applied
    /\ last' = [op |-> "JsonResolve", attempt |-> a, current |-> IsCurrent(a)]
    /\ UNCHANGED <<lifecycle, apiBaseUrl, postId, calls, renders>>
    /\ UNCHANGED svcVars

\* response.json() rejects: catch, finally
JsonReject(a, err) ==
    /\ Pending(a, "json")
    /\ err = AbortError => attempts[a].aborted
    /\ CatchFinally(a, "JsonReject", err)

Next ==
    \/ \E i \in Identities : Mount(i[1], i[2])
    \/ \E i \in Identities : ChangeIdentity(i[1], i[2])
    \/ Unmount
    \/ \E a \in 1..MaxAttempts + 1 : FetchResolveOk(a)
    \/ \E a \in 1..MaxAttempts + 1, r \in NotOkResponses : FetchResolveNotOk(a, r[1], r[2])
    \/ \E a \in 1..MaxAttempts + 1, err \in Rejections : FetchReject(a, err)
    \/ \E a \in 1..MaxAttempts + 1, data \in Posts : JsonResolve(a, data)
    \/ \E a \in 1..MaxAttempts + 1, err \in JsonRejections : JsonReject(a, err)

Spec == Init /\ [][Next]_vars

-----------------------------------------------------------------------------
(* ApiDataService *)

DEFAULT_API_BASE_URL == "https://jsonplaceholder.typicode.com"

\* HttpStatus.BAD_GATEWAY
BAD_GATEWAY == 502

\* a ?? b on values that are Null or Some(v)
Nullish(a, b) == IF a # Null THEN a ELSE b

\* process.env["API_BASE_URL"] ?? DEFAULT_API_BASE_URL
ConstructorBaseUrl(e) == Nullish(e, Some(DEFAULT_API_BASE_URL))[1]

\* (mutation of CreateWithClientBaseUrl: the environment is not consulted)
CreateWithClientBaseUrlNoEnv(arg, e) == Nullish(arg, Some(DEFAULT_API_BASE_URL))[1]

\* baseUrl ?? process.env["API_BASE_URL"] ?? DEFAULT_API_BASE_URL
CreateWithClientBaseUrl(arg, e) ==
    Nullish(Nullish(arg, e), Some(DEFAULT_API_BASE_URL))[1]

\* (mutation of BaseUrlOf: the environment is read again at each request)
BaseUrlOfLive(svc, e) == Nullish(e, Some(DEFAULT_API_BASE_URL))[1]

\* this.apiBaseUrl, a readonly field
BaseUrlOf(svc, e) == svc.apiBaseUrl

\* (mutation of PostUrl: the id is appended without its separator)
PostUrlNoSeparator(base, id) == base \o "/posts" \o ToString(id)

\* `${this.apiBaseUrl}/posts/${postId}`
PostUrl(base, id) == base \o "/posts/" \o ToString(id)

\* `${this.apiBaseUrl}/posts`
PostsUrl(base) == base \o "/posts"

\* (mutation of IssueGet: a url fetched before is answered without a call)
IssueGetCached(gs, c, url) ==
    IF \E g \in 1..Len(gs) : gs[g].url = url THEN gs
    ELSE Append(gs, [invocation |-> c, url |-> url])

\* this.httpClient.get(url)
IssueGet(gs, c, url) == Append(gs, [invocation |-> c, url |-> url])

\* (mutation of ReturnPost: the post is rebuilt with userId renamed to authorId)
ReturnPostRenamed(response) ==
    [authorId |-> response.data.userId, id |-> response.data.id,
     title |-> response.data.title, body |-> response.data.body]

\* return response.data, in fetchPostById
ReturnPost(response) == response.data

\* return response.data, in fetchAllPosts
ReturnPosts(response) == response.data

\* (mutation of CauseMessage: the message property is read from any value)
CauseMessageOfAny(err, fallback) == IF err.isError THEN err.message ELSE "undefined"

\* error instanceof Error ? error.message : fallback
CauseMessage(err, fallback) == IF err.isError THEN err.message ELSE fallback

\* new HttpException(message, status)
HttpException(message, status) ==
    [type |-> "HttpException", status |-> status, message |-> message]

\* (mutation of FetchPostMessage: the id is left out)
FetchPostMessageNoId(id, cause) == "Failed to fetch post: " \o cause

\* `Failed to fetch post ${postId}: ${message}`
FetchPostMessage(id, cause) ==
    "Failed to fetch post " \o ToString(id) \o ": " \o cause

\* (mutation of FetchPostsMessage: the text of fetchPostById is used)
FetchPostsMessageCopied(cause) == "Failed to fetch post: " \o cause

\* `Failed to fetch posts: ${message}`
FetchPostsMessage(cause) == "Failed to fetch posts: " \o cause

\* (mutation of Failure: a value that is not an Error is thrown on as it is)
FailureRaw(method, id, err) ==
    IF err.isError
    THEN HttpException(
             IF method = "fetchPostById"
             THEN FetchPostMessage(id[1], err.message)
             ELSE FetchPostsMessage(err.message),
             BAD_GATEWAY)
    ELSE [type |-> "non-Error", status |-> 0, message |-> ""]

\* the catch blocks of fetchPostById and fetchAllPosts: what is thrown for err
Failure(method, id, err) ==
    IF method = "fetchPostById"
    THEN HttpException(
             FetchPostMessage(id[1], CauseMessage(err, "Unknown error fetching post")),
             BAD_GATEWAY)
    ELSE HttpException(
             FetchPostsMessage(CauseMessage(err, "Unknown error fetching posts")),
             BAD_GATEWAY)

Awaiting(c) == c \in 1..Len(invocations) /\ invocations[c].pc = "await"

\* the instance made by new ApiDataService()
ByConstructor(e) ==
    [via |-> "constructor",
     apiBaseUrl |-> ConstructorBaseUrl(e),
     baseUrlArg |-> Null,
     envAtConstruction |-> e]

\* the instance made by ApiDataService.createWithClient(client, baseUrl)
ByCreateWithClient(arg, e) ==
    [via |-> "createWithClient",
     apiBaseUrl |-> CreateWithClientBaseUrl(arg, e),
     baseUrlArg |-> arg,
     envAtConstruction |-> e]

\* the url of a request of instance svc
RequestUrl(svc, req, e) ==
    IF req.method = "fetchPostById"
    THEN PostUrl(BaseUrlOf(svc, e), req.postId[1])
    ELSE PostsUrl(BaseUrlOf(svc, e))

\* an invocation of instance s suspended at its await (envAtCall: history, the
\* environment at the time of the call)
Invoked(s, req, e) ==
    [svc |-> s, method |-> req.method, postId |-> req.postId, pc |-> "await",
     envAtCall |-> e, transport |-> Null, outcome |-> Null]

\* the invocation after httpClient.get resolved: return response.data
Returned(inv, data) ==
    [inv EXCEPT !.pc = "returned",
                !.transport = Some([ok |-> TRUE, data |-> data]),
                !.outcome = Some([kind |-> "returned",
                                  value |-> IF inv.method = "fetchPostById"
                                            THEN ReturnPost([data |-> data])
                                            ELSE ReturnPosts([data |-> data])])]

\* the invocation after httpClient.get rejected: catch, throw new HttpException
Thrown(inv, err) ==
    [inv EXCEPT !.pc = "thrown",
                !.transport = Some([ok |-> FALSE, err |-> err]),
                !.outcome = Some([kind |-> "thrown",
                                  value |-> Failure(inv.method, inv.postId, err)])]

\* process.env["API_BASE_URL"] is set, changed or deleted
SetEnv(v) ==
    /\ v # env
    /\ env' = v
    /\ UNCHANGED <<services, invocations, gets>>
    /\ UNCHANGED <<displayVars, requests>>

\* new ApiDataService()
Construct ==
    /\ services = <<>>
    /\ services' = <<ByConstructor(env)>>
    /\ UNCHANGED <<env, invocations, gets>>
    /\ UNCHANGED <<displayVars, requests>>

\* ApiDataService.createWithClient(client, baseUrl)
CreateWithClient(arg) ==
    /\ services = <<>>
    /\ services' = <<ByCreateWithClient(arg, env)>>
    /\ UNCHANGED <<env, invocations, gets>>
    /\ UNCHANGED <<displayVars, requests>>

\* service.fetchPostById(id) or service.fetchAllPosts(), up to its await
Fetch(s, req) ==
    /\ Len(invocations) < MaxInvocations
    /\ invocations' = Append(invocations, Invoked(s, req, env))
    /\ gets' = IssueGet(gets, Len(invocations) + 1,
                        RequestUrl(services[s], req, env))
    /\ UNCHANGED <<env, services>>
    /\ UNCHANGED displayVars

FetchPostById(s, id) ==
    /\ s \in 1..Len(services)
    /\ Fetch(s, [method |-> "fetchPostById", postId |-> Some(id)])
    /\ UNCHANGED requests

FetchAllPosts(s) ==
    /\ s \in 1..Len(services)
    /\ Fetch(s, [method |-> "fetchAllPosts", postId |-> Null])
    /\ UNCHANGED requests

\* httpClient.get resolves with a response
GetResolve(c, data) ==
    /\ Awaiting(c)
    /\ invocations[c].method = "fetchPostById" <=> data \in PostBodies
    /\ invocations' = [invocations EXCEPT ![c] = Returned(invocations[c], data)]
    /\ UNCHANGED <<env, services, gets>>
    /\ UNCHANGED <<displayVars, requests>>

\* httpClient.get rejects
GetReject(c, err) ==
    /\ Awaiting(c)
    /\ invocations' = [invocations EXCEPT ![c] = Thrown(invocations[c], err)]
    /\ UNCHANGED <<env, services, gets>>
    /\ UNCHANGED <<displayVars, requests>>

NextService ==
    \/ \E v \in EnvValues : SetEnv(v)
    \/ Construct
    \/ \E arg \in BaseUrlArgs : CreateWithClient(arg)
    \/ \E id \in PostIdArgs : FetchPostById(1, id)
    \/ FetchAllPosts(1)
    \/ \E c \in 1..MaxInvocations + 1, data \in PostBodies \cup ListBodies :
           GetResolve(c, data)
    \/ \E c \in 1..MaxInvocations + 1, err \in GetRejections : GetReject(c, err)

SpecService == Init /\ [][NextService]_vars

-----------------------------------------------------------------------------
(* The two construction paths side by side: one instance made by the       *)
(* constructor and one by createWithClient(client) in the same             *)
(* environment, given the same calls and the same transport outcomes.      *)

\* new ApiDataService() and ApiDataService.createWithClient(client)
ConstructPair ==
    /\ services = <<>>
    /\ services' = <<ByConstructor(env), ByCreateWithClient(Null, env)>>
    /\ UNCHANGED <<env, invocations, gets>>
    /\ UNCHANGED <<displayVars, requests>>

\* the same call on both instances, each up to its await
PairFetch(req) ==
    /\ Len(services) = 2
    /\ Len(invocations) < 2 * MaxInvocations
    /\ invocations' = invocations \o <<Invoked(1, req, env), Invoked(2, req, env)>>
    /\ gets' = IssueGet(IssueGet(gets, Len(invocations) + 1,
                                 RequestUrl(services[1], req, env)),
                        Len(invocations) + 2,
                        RequestUrl(services[2], req, env))
    /\ UNCHANGED <<env, services>>
    /\ UNCHANGED <<displayVars, requests>>

PairFetchPostById(id) ==
    /\ id \in PostIdArgs
    /\ PairFetch([method |-> "fetchPostById", postId |-> Some(id)])

PairFetchAllPosts ==
    /\ Len(services) = 2
    /\ PairFetch([method |-> "fetchAllPosts", postId |-> Null])

\* httpClient.get resolves with the same response for both instances
PairGetResolve(c, data) ==
    /\ c % 2 = 1
    /\ Awaiting(c) /\ Awaiting(c + 1)
    /\ invocations[c].method = "fetchPostById" <=> data \in PostBodies
    /\ invocations' = [invocations EXCEPT
                          ![c] = Returned(invocations[c], data),
                          ![c + 1] = Returned(invocations[c + 1], data)]
    /\ UNCHANGED <<env, services, gets>>
    /\ UNCHANGED <<displayVars, requests>>

\* httpClient.get rejects with the same value for both instances
PairGetReject(c, err) ==
    /\ c % 2 = 1
    /\ Awaiting(c) /\ Awaiting(c + 1)
    /\ invocations' = [invocations EXCEPT
                          ![c] = Thrown(invocations[c], err),
                          ![c + 1] = Thrown(invocations[c + 1], err)]
    /\ UNCHANGED <<env, services, gets>>
    /\ UNCHANGED <<displayVars, requests>>

NextPair ==
    \/ \E v \in EnvValues : SetEnv(v)
    \/ ConstructPair
    \/ \E id \in PostIdArgs : PairFetchPostById(id)
    \/ PairFetchAllPosts
    \/ \E c \in 1..2 * MaxInvocations, data \in PostBodies \cup ListBodies :
           PairGetResolve(c, data)
    \/ \E c \in 1..2 * MaxInvocations, err \in GetRejections : PairGetReject(c, err)

SpecPair == Init /\ [][NextPair]_vars

-----------------------------------------------------------------------------
(* ApiDataController *)

MaxRequests == 3

\* the :id segment of the path of a request GET /api/posts/:id, as characters
RawIds ==
    { <<"1">>, <<"9", "9", "9">>, <<"a", "b", "c">>,
      <<"1", ".", "5">>, <<"1", "2", "a">> }

IsDigit(ch) == ch \in {"0", "1", "2", "3", "4", "5", "6", "7", "8", "9"}

DigitValue(ch) ==
    CASE ch = "0" -> 0 [] ch = "1" -> 1 [] ch = "2" -> 2 [] ch = "3" -> 3
      [] ch = "4" -> 4 [] ch = "5" -> 5 [] ch = "6" -> 6 [] ch = "7" -> 7
      [] ch = "8" -> 8 [] ch = "9" -> 9

\* the longest prefix of raw made of digits
RECURSIVE DigitPrefix(_)
DigitPrefix(raw) ==
    IF raw = <<>> \/ ~IsDigit(Head(raw)) THEN <<>>
    ELSE <<Head(raw)>> \o DigitPrefix(Tail(raw))

\* the number written by a sequence of digits
RECURSIVE DigitsValue(_)
DigitsValue(ds) ==
    IF ds = <<>> THEN 0
    ELSE 10 * DigitsValue(SubSeq(ds, 1, Len(ds) - 1)) + DigitValue(ds[Len(ds)])

\* parseInt(value, 10), for a value that has a digit prefix
ParseInt(raw) ==
    IF raw # <<>> /\ raw[1] = "-"
    THEN 0 - DigitsValue(DigitPrefix(Tail(raw)))
    ELSE DigitsValue(DigitPrefix(raw))

\* ParseIntPipe's test of its input: an optional sign, then digits only
IsNumeric(raw) ==
    LET digits == IF raw # <<>> /\ raw[1] = "-" THEN Tail(raw) ELSE raw
    IN  /\ digits # <<>>
        /\ \A i \in 1..Len(digits) : IsDigit(digits[i])

\* ParseIntPipe.transform: the parsed number, or a BadRequestException (400)
ParseIntPipe(raw) ==
    IF IsNumeric(raw)
    THEN [ok |-> TRUE, value |-> ParseInt(raw), status |-> 0]
    ELSE [ok |-> FALSE, value |-> 0, status |-> 400]

\* (mutation of IdParam: the parameter is converted with parseInt, which
\* stops at the first character that is not a digit, and is not validated)
IdParamParseInt(raw) ==
    IF DigitPrefix(raw) # <<>>
    THEN [ok |-> TRUE, value |-> ParseInt(raw), status |-> 0]
    ELSE [ok |-> FALSE, value |-> 0, status |-> 400]

\* @Param("id", ParseIntPipe) id: number
IdParam(raw) == ParseIntPipe(raw)

\* a routed request: its route, its :id segment, the status of the response
\* the routing layer gave (Null while the handler has the request) and the
\* invocation of the service made by the handler (0: none)
Routed(route, raw, pipe, c) ==
    [route |-> route, raw |-> raw,
     rejected |-> IF pipe.ok THEN Null ELSE Some(pipe.status),
     invocation |-> IF pipe.ok THEN c ELSE 0]

\* GET /api/posts/:id: the pipe, then getPostById calls fetchPostById(id)
GetPostById(raw) ==
    /\ Len(services) = 1
    /\ Len(requests) < MaxRequests
    /\ requests' = Append(requests,
                          Routed("posts/:id", raw, IdParam(raw), Len(invocations) + 1))
    /\ IF IdParam(raw).ok
       THEN Fetch(1, [method |-> "fetchPostById", postId |-> Some(IdParam(raw).value)])
       ELSE /\ UNCHANGED <<env, services, invocations, gets>>
            /\ UNCHANGED displayVars

\* GET /api/posts: getAllPosts calls fetchAllPosts()
GetAllPosts ==
    /\ Len(services) = 1
    /\ Len(requests) < MaxRequests
    /\ requests' = Append(requests,
                          Routed("posts", <<>>, [ok |-> TRUE, value |-> 0, status |-> 0],
                                 Len(invocations) + 1))
    /\ Fetch(1, [method |-> "fetchAllPosts", postId |-> Null])

NextController ==
    \/ Construct
    \/ \E raw \in RawIds : GetPostById(raw)
    \/ GetAllPosts
    \/ \E c \in 1..MaxInvocations + 1, data \in PostBodies \cup ListBodies :
           GetResolve(c, data)
    \/ \E c \in 1..MaxInvocations + 1, err \in GetRejections : GetReject(c, err)

SpecController == Init /\ [][NextController]_vars

-----------------------------------------------------------------------------
(* Properties of PostDisplay *)

\* an attempt that was superseded by a newer effect run, or whose component is unmounted
Stale(a) == a \in 1..Len(attempts) /\ ~IsCurrent(a)

\* the step is a settling (of fetch or of response.json) of attempt a
Settles(a) == a \in 1..Len(attempts) /\ attempts'[a].pc # attempts[a].pc

\* C1: when the fetch of an attempt that was superseded by an identity change,
\* or whose component was unmounted, resolves or rejects (with any result),
\* none of loading, error, post changes.
C1_CancellationSuppression ==
    [][\A a \in 1..Len(attempts) : (Stale(a) /\ Settles(a)) => UNCHANGED view]_vars

\* C2: the only results ever stored in post or error are those of the attempt
\* that is the most recent one when it stores them; a superseded attempt
\* never stores its result.
C2_SingleInFlight == \A e \in applied : e.current

\* C3: while the fetch issued for the current identity has not settled, the
\* component renders Loading.
C3_LoadingFirst ==
    (lifecycle = "mounted" /\ attempts[Len(attempts)].pc = "fetch")
        => Rendered.testid = "loading"

\* C4: handling a rejection named 'AbortError' changes none of loading,
\* error, post.
C4_AbortNoMutation ==
    [][\A a \in 1..Len(attempts) :
          (FetchReject(a, AbortError) \/ JsonReject(a, AbortError))
              => UNCHANGED view]_vars

\* C5: when the body of an OK response of the current attempt is decoded, the
\* component renders Success with the title and body of the decoded post.
C5_OkReachesSuccess ==
    [][\A a \in 1..Len(attempts), data \in Posts :
          (IsCurrent(a) /\ JsonResolve(a, data))
              => Rendered' = [testid |-> "post-display",
                              text |-> <<data.title, data.body>>]]_vars

\* the message the documentation gives for each non-OK response
ExpectedHttpMessage(r) ==
    CASE r = <<404, "Not Found">> -> "HTTP 404: Not Found"
      [] r = <<500, "">> -> "HTTP 500: "

\* C6: a non-OK response received by the current attempt leaves the component
\* in Error with message 'HTTP {status}: {statusText}', rendered as
\* 'Error: HTTP {status}: {statusText}'; the body is not decoded (the attempt
\* ends without awaiting response.json) and post keeps its value.
C6_NotOkReachesError ==
    [][\A a \in 1..Len(attempts), r \in NotOkResponses :
          (IsCurrent(a) /\ FetchResolveNotOk(a, r[1], r[2]))
              => /\ loading' = FALSE
                 /\ error' = Some(ExpectedHttpMessage(r))
                 /\ Rendered' = [testid |-> "error",
                                 text |-> <<"Error: " \o ExpectedHttpMessage(r)>>]
                 /\ post' = post
                 /\ attempts'[a].pc = "done"]_vars

\* C6 witness: the current attempt's 404 was handled while an earlier post is held
C6_Witness ==
    /\ last.op = "FetchResolveNotOk" /\ last.current
    /\ error = Some("HTTP 404: Not Found")
    /\ post # Null
    /\ Rendered.testid = "error"

\* C7: every failure of the current attempt's fetch that is not a
\* cancellation leaves the component in Error, showing the failure's message
\* when it has one (and some fixed text otherwise).
C7_FailureReachesError ==
    [][\A a \in 1..Len(attempts), err \in Rejections \ {AbortError} :
          (IsCurrent(a) /\ FetchReject(a, err))
              => /\ Rendered'.testid = "error"
                 /\ (err.isError /\ err.message # "")
                        => Rendered'.text = <<"Error: " \o err.message>>]_vars

\* C8: the state 'not loading, no error, no post' is never reached.
C8_NoDataUnreachable == ~(loading = FALSE /\ error = Null /\ post = Null)

\* C9: every attempt but the latest has an aborted controller, so at most one
\* outstanding fetch has a signal that was not aborted.
C9_OneUnsignalled ==
    /\ \A a \in 1..Len(attempts) : a < Len(attempts) => attempts[a].aborted
    /\ Cardinality({a \in 1..Len(attempts) :
                       attempts[a].pc # "done" /\ ~attempts[a].aborted}) <= 1

\* C9 witness: two fetches are outstanding, the first one aborted
C9_Witness ==
    /\ Len(attempts) >= 2
    /\ attempts[1].pc = "fetch" /\ attempts[1].aborted
    /\ attempts[2].pc = "fetch" /\ ~attempts[2].aborted

\* the url the documentation gives for each identity
ExpectedUrl(i) ==
    CASE i = <<"http://localhost:3000/api", 1>> -> "http://localhost:3000/api/posts/1"
      [] i = <<"http://test.api", 1>> -> "http://test.api/posts/1"
      [] i = <<"http://test.api", 999>> -> "http://test.api/posts/999"

\* C10: the calls to fetch are exactly one per mount or identity change, in
\* order, each to '{apiBaseUrl}/posts/{postId}' of that identity and with the
\* signal of that attempt's own controller, which no other call carries.
C10_OneFetchPerIdentity ==
    /\ Len(calls) = Len(renders)
    /\ Len(calls) = Len(attempts)
    /\ \A i \in 1..Len(calls) :
          /\ calls[i].url = ExpectedUrl(renders[i])
          /\ calls[i].signal = attempts[i].controller
    /\ \A i, j \in 1..Len(calls) : calls[i].signal = calls[j].signal => i = j

\* C10 witness: two identities were fetched and a failure was handled since
C10_Witness ==
    /\ Len(calls) = 2
    /\ calls[2].url = "http://test.api/posts/999"
    /\ last.op = "FetchReject" /\ last.current
    /\ error = Some("Network failure")

\* C11: while the component stays mounted with the same identity and the
\* fetch issued for that identity stays pending, a component that renders
\* Loading keeps rendering Loading.
C11_StaysLoading ==
    [][(/\ lifecycle = "mounted" /\ lifecycle' = "mounted"
        /\ Len(attempts') = Len(attempts)
        /\ Pending(Len(attempts), "fetch")
        /\ attempts'[Len(attempts)].pc = "fetch"
        /\ Rendered.testid = "loading")
           => Rendered'.testid = "loading"]_vars

\* C12: the promise returned by fetchPost never rejects: every attempt is
\* pending at one of its awaits or has completed normally, whatever failure
\* it met.
C12_NeverThrows ==
    \A a \in 1..Len(attempts) : attempts[a].pc \in {"fetch", "json", "done"}

\* C12 witness: the current attempt's fetch rejected with a value that is not
\* an Error (no error stored, signal not aborted) and fetchPost completed
C12_Witness ==
    /\ last.op = "FetchReject" /\ last.current
    /\ attempts[last.attempt].pc = "done"
    /\ ~attempts[last.attempt].aborted
    /\ error = Null /\ loading = FALSE

\* C22: Success always shows the body decoded by the attempt of the current
\* identity: every step that brings the component to render Success, or that
\* changes the post shown while it renders Success, is the decoding of the
\* body by the current attempt, and stores that body.
C22_SuccessOfCurrentIdentity ==
    [][(/\ Rendered'.testid = "post-display"
        /\ (Rendered.testid # "post-display" \/ post' # post))
           => \E a \in 1..Len(attempts), data \in Posts :
                  /\ IsCurrent(a)
                  /\ JsonResolve(a, data)
                  /\ post' = Some(data)]_vars

\* C23: once the fetch issued for the current identity has settled and been
\* handled, and until the identity changes or the component unmounts, the
\* component is out of Loading and renders Success or Error.
C23_SettlesToTerminal ==
    (/\ lifecycle = "mounted"
     /\ attempts[Len(attempts)].pc = "done")
        => Rendered.testid \in {"post-display", "error"}

\* the messages the error field may hold: those of the non-OK responses and
\* of the rejections that are Errors not named 'AbortError'
ExpectedErrors ==
    { "HTTP 404: Not Found", "HTTP 500: ", "Network failure", "" }

\* C24: error starts null and every step that changes it either resets it to
\* null (the effect runs), or handles a non-OK response and stores
\* 'HTTP {status}: {statusText}', or handles a rejection that is an Error not
\* named 'AbortError' and stores its message; handling a rejection named
\* 'AbortError' leaves error as it was.
C24_ErrorProvenance ==
    [][/\ error' # error =>
             \/ error' = Null /\ Len(attempts') = Len(attempts) + 1
             \/ \E a \in 1..Len(attempts), r \in NotOkResponses :
                    /\ FetchResolveNotOk(a, r[1], r[2])
                    /\ error' = Some(ExpectedHttpMessage(r))
             \/ \E a \in 1..Len(attempts), err \in Rejections :
                    /\ FetchReject(a, err) \/ JsonReject(a, err)
                    /\ err.isError /\ err.name # "AbortError"
                    /\ error' = Some(err.message)
       /\ error' # Null => error'[1] \in ExpectedErrors
       /\ \A a \in 1..Len(attempts) :
             (FetchReject(a, AbortError) \/ JsonReject(a, AbortError))
                 => error' = error]_vars

\* C24 witness: an aborted attempt's response.json() rejected with AbortError
\* (a 'Network failure' would have been stored) while the error of a 500
\* response was held, and the error is still that one
C24_Witness ==
    /\ last.op = "JsonReject"
    /\ attempts[last.attempt].aborted
    /\ error = Some("HTTP 500: ")

\* C25: when an attempt that is current fails with a non-OK response or with
\* a rejection that is an Error not named 'AbortError', with a message that
\* is not empty, while a post fetched earlier is stored, the component
\* renders Error with that message and not the post; and no step clears a
\* stored post.
C25_ErrorOverStalePost ==
    [][/\ \A a \in 1..Len(attempts) :
             \A err \in {e \in Rejections :
                             e.isError /\ e.name # "AbortError" /\ e.message # ""} :
                 (/\ IsCurrent(a) /\ post # Null
                  /\ FetchReject(a, err) \/ JsonReject(a, err))
                     => /\ Rendered' = [testid |-> "error",
                                        text |-> <<"Error: Network failure">>]
                        /\ post' = post
       /\ \A a \in 1..Len(attempts), r \in NotOkResponses :
             (/\ IsCurrent(a) /\ post # Null
              /\ FetchResolveNotOk(a, r[1], r[2]))
                 => /\ Rendered' = [testid |-> "error",
                                    text |-> <<"Error: " \o ExpectedHttpMessage(r)>>]
                    /\ post' = post
       /\ post # Null => post' # Null]_vars

\* C25 witness: the first attempt stored its post while it was current, the
\* identity changed, and the second attempt's fetch failed with 'Network
\* failure'
C25_Witness ==
    /\ Len(attempts) = 2
    /\ [attempt |-> 1, current |-> TRUE] \in applied
    /\ post # Null
    /\ last = [op |-> "FetchReject", attempt |-> 2, current |-> TRUE]
    /\ error = Some("Network failure")
    /\ Rendered.testid = "error"

\* C26: the controller of the latest attempt of a mounted component is not
\* aborted; the controller of every earlier attempt, and of every attempt of
\* an unmounted component, is aborted, whether or not the attempt had
\* completed before.
C26_AbortOnlyOnCleanup ==
    /\ lifecycle = "mounted" => ~attempts[Len(attempts)].aborted
    /\ \A a \in 1..Len(attempts) :
          (a < Len(attempts) \/ lifecycle = "unmounted") => attempts[a].aborted

\* C26 witness: the first attempt completed (it stored its result while it
\* was current), then the identity changed: its controller is aborted, the
\* second one is not
C26_Witness ==
    /\ lifecycle = "mounted"
    /\ Len(attempts) = 2
    /\ [attempt |-> 1, current |-> TRUE] \in applied
    /\ attempts[1].pc = "done" /\ attempts[1].aborted
    /\ attempts[2].pc = "fetch" /\ ~attempts[2].aborted

-----------------------------------------------------------------------------
(* Properties of ApiDataService *)

\* the transport rejected invocation c
GetFailed(c) ==
    /\ invocations[c].transport # Null
    /\ ~invocations[c].transport[1].ok

\* the transport answered invocation c
GetSucceeded(c) ==
    /\ invocations[c].transport # Null
    /\ invocations[c].transport[1].ok

\* the documented failure message of fetchPostById for each id and cause
ExpectedPostFailureMessage(id, m) ==
    CASE <<id, m>> = <<999, "Network Error">> -> "Failed to fetch post 999: Network Error"
      [] <<id, m>> = <<999, "Connection refused">> ->
             "Failed to fetch post 999: Connection refused"
      [] <<id, m>> = <<1, "Network Error">> -> "Failed to fetch post 1: Network Error"
      [] <<id, m>> = <<1, "Connection refused">> ->
             "Failed to fetch post 1: Connection refused"

\* C13: when the GET of fetchPostById(id) rejects with an Error with message
\* m, the invocation fails with message 'Failed to fetch post {id}: {m}'.
C13_FetchPostByIdMessage ==
    \A c \in 1..Len(invocations) :
        (/\ invocations[c].method = "fetchPostById"
         /\ GetFailed(c)
         /\ invocations[c].transport[1].err.isError)
            => /\ invocations[c].outcome # Null
               /\ invocations[c].outcome[1].kind = "thrown"
               /\ invocations[c].outcome[1].value.message =
                      ExpectedPostFailureMessage(
                          invocations[c].postId[1],
                          invocations[c].transport[1].err.message)

\* C13 witness: fetchPostById(999) failed on a GET rejected with 'Network Error'
C13_Witness ==
    \E c \in 1..Len(invocations) :
        /\ invocations[c].method = "fetchPostById"
        /\ invocations[c].postId = Some(999)
        /\ GetFailed(c)
        /\ invocations[c].transport[1].err.isError
        /\ invocations[c].transport[1].err.message = "Network Error"
        /\ invocations[c].pc = "thrown"

\* the documented failure message of fetchAllPosts for each cause
ExpectedPostsFailureMessage(m) ==
    CASE m = "Network Error" -> "Failed to fetch posts: Network Error"
      [] m = "Connection refused" -> "Failed to fetch posts: Connection refused"

\* C14: when the GET of fetchAllPosts() rejects with an Error with message m,
\* the invocation fails with message 'Failed to fetch posts: {m}'.
C14_FetchAllPostsMessage ==
    \A c \in 1..Len(invocations) :
        (/\ invocations[c].method = "fetchAllPosts"
         /\ GetFailed(c)
         /\ invocations[c].transport[1].err.isError)
            => /\ invocations[c].outcome # Null
               /\ invocations[c].outcome[1].kind = "thrown"
               /\ invocations[c].outcome[1].value.message =
                      ExpectedPostsFailureMessage(
                          invocations[c].transport[1].err.message)

\* C14 witness: fetchAllPosts() failed on a GET rejected with 'Connection refused'
C14_Witness ==
    \E c \in 1..Len(invocations) :
        /\ invocations[c].method = "fetchAllPosts"
        /\ GetFailed(c)
        /\ invocations[c].transport[1].err.isError
        /\ invocations[c].transport[1].err.message = "Connection refused"
        /\ invocations[c].pc = "thrown"

\* C15: when the GET resolves, the invocation returns the body of its own
\* response: the same fields with the same values for a post, the same posts
\* in the same order for a list.
C15_PassThrough ==
    \A c \in 1..Len(invocations) :
        GetSucceeded(c)
            => /\ invocations[c].outcome # Null
               /\ invocations[c].outcome[1].kind = "returned"
               /\ DOMAIN invocations[c].outcome[1].value =
                      DOMAIN invocations[c].transport[1].data
               /\ \A k \in DOMAIN invocations[c].transport[1].data :
                      invocations[c].outcome[1].value[k] =
                          invocations[c].transport[1].data[k]

\* C15 witness: two invocations of fetchPostById returned, each its own body
C15_Witness ==
    /\ Len(invocations) >= 2
    /\ invocations[1].method = "fetchPostById" /\ GetSucceeded(1)
    /\ invocations[2].method = "fetchPostById" /\ GetSucceeded(2)
    /\ invocations[1].outcome[1].value = mockApiPost
    /\ invocations[2].outcome[1].value = secondApiPost

\* C16: every invocation, pending, returned or failed, has made exactly one
\* GET, and there are no other GETs.
C16_OneGetPerInvocation ==
    /\ Len(gets) = Len(invocations)
    /\ \A c \in 1..Len(invocations) :
          Cardinality({g \in 1..Len(gets) : gets[g].invocation = c}) = 1

\* C16 witness: fetchPostById was invoked twice with the same id, the first
\* time failing
C16_Witness ==
    /\ Len(invocations) >= 2
    /\ invocations[1].method = "fetchPostById"
    /\ invocations[2].method = "fetchPostById"
    /\ invocations[1].postId = invocations[2].postId
    /\ invocations[1].pc = "thrown"
    /\ Len(gets) = 2 /\ gets[1].url = gets[2].url

\* the documented url for each base url and request
ExpectedGetUrl(base, method, id) ==
    CASE <<base, method, id>> =
             <<"https://jsonplaceholder.typicode.com", "fetchPostById", <<1>>>> ->
             "https://jsonplaceholder.typicode.com/posts/1"
      [] <<base, method, id>> =
             <<"https://jsonplaceholder.typicode.com", "fetchPostById", <<999>>>> ->
             "https://jsonplaceholder.typicode.com/posts/999"
      [] <<base, method, id>> =
             <<"https://jsonplaceholder.typicode.com", "fetchAllPosts", <<>>>> ->
             "https://jsonplaceholder.typicode.com/posts"
      [] <<base, method, id>> = <<"http://env.api", "fetchPostById", <<1>>>> ->
             "http://env.api/posts/1"
      [] <<base, method, id>> = <<"http://env.api", "fetchPostById", <<999>>>> ->
             "http://env.api/posts/999"
      [] <<base, method, id>> = <<"http://env.api", "fetchAllPosts", <<>>>> ->
             "http://env.api/posts"
      [] <<base, method, id>> = <<"http://arg.api", "fetchPostById", <<1>>>> ->
             "http://arg.api/posts/1"
      [] <<base, method, id>> = <<"http://arg.api", "fetchPostById", <<999>>>> ->
             "http://arg.api/posts/999"
      [] <<base, method, id>> = <<"http://arg.api", "fetchAllPosts", <<>>>> ->
             "http://arg.api/posts"

\* C17: the GET of every invocation, whether it then succeeds or fails, goes
\* to '{baseUrl}/posts/{id}' for fetchPostById(id) and to '{baseUrl}/posts'
\* for fetchAllPosts(), baseUrl being the base url of the instance.
C17_ExactUrls ==
    \A g \in 1..Len(gets) :
        gets[g].url =
            ExpectedGetUrl(services[invocations[gets[g].invocation].svc].apiBaseUrl,
                           invocations[gets[g].invocation].method,
                           invocations[gets[g].invocation].postId)

\* C17 witness: one invocation of each method, one returned and one failed
C17_Witness ==
    /\ Len(invocations) >= 2
    /\ invocations[1].method = "fetchPostById" /\ invocations[1].pc = "thrown"
    /\ invocations[2].method = "fetchAllPosts" /\ invocations[2].pc = "returned"
    /\ gets[1].url = "https://jsonplaceholder.typicode.com/posts/999"
    /\ gets[2].url = "https://jsonplaceholder.typicode.com/posts"

\* the documented failure messages of each method
ExpectedFailureMessages(method, id) ==
    IF method = "fetchPostById"
    THEN IF id = <<999>>
         THEN { "Failed to fetch post 999: Network Error",
                "Failed to fetch post 999: Connection refused",
                "Failed to fetch post 999: Unknown error fetching post" }
         ELSE { "Failed to fetch post 1: Network Error",
                "Failed to fetch post 1: Connection refused",
                "Failed to fetch post 1: Unknown error fetching post" }
    ELSE { "Failed to fetch posts: Network Error",
           "Failed to fetch posts: Connection refused",
           "Failed to fetch posts: Unknown error fetching posts" }

\* C18: whatever the GET rejects with, an Error or not, the invocation does
\* not return: it throws an HttpException with status 502 and a formatted
\* message.
C18_WrappedFailure ==
    \A c \in 1..Len(invocations) :
        GetFailed(c)
            => /\ invocations[c].pc = "thrown"
               /\ invocations[c].outcome # Null
               /\ invocations[c].outcome[1].kind = "thrown"
               /\ invocations[c].outcome[1].value.type = "HttpException"
               /\ invocations[c].outcome[1].value.status = 502
               /\ invocations[c].outcome[1].value.message \in
                      ExpectedFailureMessages(invocations[c].method,
                                              invocations[c].postId)

\* C18 witness: both methods failed, one on an Error, one on another value
C18_Witness ==
    /\ Len(invocations) >= 2
    /\ invocations[1].method = "fetchPostById" /\ GetFailed(1)
    /\ ~invocations[1].transport[1].err.isError
    /\ invocations[2].method = "fetchAllPosts" /\ GetFailed(2)
    /\ invocations[2].transport[1].err.isError

\* C19 (as stated): the base url of every instance is the environment
\* override in force at its construction, else the default, and all its
\* GETs use it.
C19_EnvOrDefault ==
    /\ \A s \in 1..Len(services) :
          services[s].apiBaseUrl =
              IF services[s].envAtConstruction # Null
              THEN services[s].envAtConstruction[1]
              ELSE "https://jsonplaceholder.typicode.com"
    /\ \A g \in 1..Len(gets) :
          gets[g].url =
              ExpectedGetUrl(
                  IF services[invocations[gets[g].invocation].svc].envAtConstruction # Null
                  THEN services[invocations[gets[g].invocation].svc].envAtConstruction[1]
                  ELSE "https://jsonplaceholder.typicode.com",
                  invocations[gets[g].invocation].method,
                  invocations[gets[g].invocation].postId)

\* the base url an instance resolves at construction
ResolvedAtConstruction(svc) ==
    IF svc.baseUrlArg # Null THEN svc.baseUrlArg[1]
    ELSE IF svc.envAtConstruction # Null THEN svc.envAtConstruction[1]
    ELSE "https://jsonplaceholder.typicode.com"

\* C19 (amended): the base url of every instance is the baseUrl argument of
\* createWithClient when one was given, else the environment override in
\* force at its construction, else the default; all its GETs use that value,
\* whatever the environment is when they are made.
C19_ResolvedOnce ==
    /\ \A s \in 1..Len(services) :
          services[s].apiBaseUrl = ResolvedAtConstruction(services[s])
    /\ \A g \in 1..Len(gets) :
          gets[g].url =
              ExpectedGetUrl(
                  ResolvedAtConstruction(services[invocations[gets[g].invocation].svc]),
                  invocations[gets[g].invocation].method,
                  invocations[gets[g].invocation].postId)

\* C19 witness: an instance built without baseUrl while the override was set
\* made a GET after the override was removed
C19_Witness ==
    \E c \in 1..Len(invocations) :
        /\ services[invocations[c].svc].baseUrlArg = Null
        /\ services[invocations[c].svc].envAtConstruction = Some("http://env.api")
        /\ invocations[c].envAtCall = Null
        /\ \E g \in 1..Len(gets) :
              gets[g].invocation = c /\ gets[g].url = "http://env.api/posts/1"

\* C20: an instance made by the constructor and one made by
\* createWithClient(client) in the same environment, given the same calls and
\* the same transport outcomes, have the same base url, make their GETs to the
\* same urls and end every call the same way: the same value returned or the
\* same failure thrown.
C20_SameBehaviour ==
    Len(services) = 2 =>
        /\ services[1].via = "constructor"
        /\ services[2].via = "createWithClient"
        /\ services[1].apiBaseUrl = services[2].apiBaseUrl
        /\ \A c \in 1..Len(invocations) :
              c % 2 = 1 =>
                  /\ invocations[c].svc = 1 /\ invocations[c + 1].svc = 2
                  /\ gets[c].url = gets[c + 1].url
                  /\ invocations[c].pc = invocations[c + 1].pc
                  /\ invocations[c].outcome = invocations[c + 1].outcome

\* C20 witness: both instances were made while the override was set, and
\* have since returned from one call and failed in another
C20_Witness ==
    /\ Len(services) = 2
    /\ services[1].envAtConstruction = Some("http://env.api")
    /\ Len(invocations) = 4
    /\ invocations[1].pc = "returned" /\ invocations[2].pc = "returned"
    /\ invocations[3].pc = "thrown" /\ invocations[4].pc = "thrown"
    /\ gets[1].url = "http://env.api/posts/999"

\* the documented failure message of each request whose GET rejected with a
\* value that is not an Error
ExpectedFallbackMessage(method, id) ==
    CASE <<method, id>> = <<"fetchPostById", <<1>>>> ->
             "Failed to fetch post 1: Unknown error fetching post"
      [] <<method, id>> = <<"fetchPostById", <<999>>>> ->
             "Failed to fetch post 999: Unknown error fetching post"
      [] <<method, id>> = <<"fetchAllPosts", <<>>>> ->
             "Failed to fetch posts: Unknown error fetching posts"

\* C27: when the GET rejects with a value that is not an Error, the
\* invocation fails with 'Failed to fetch post {id}: Unknown error fetching
\* post' (fetchPostById) or 'Failed to fetch posts: Unknown error fetching
\* posts' (fetchAllPosts).
C27_FallbackMessage ==
    \A c \in 1..Len(invocations) :
        (GetFailed(c) /\ ~invocations[c].transport[1].err.isError)
            => /\ invocations[c].outcome # Null
               /\ invocations[c].outcome[1].kind = "thrown"
               /\ invocations[c].outcome[1].value.message =
                      ExpectedFallbackMessage(invocations[c].method,
                                              invocations[c].postId)

\* C27 witness: fetchPostById(999) and fetchAllPosts() both failed on a GET
\* rejected with a value that is not an Error
C27_Witness ==
    /\ Len(invocations) >= 2
    /\ invocations[1].method = "fetchPostById" /\ invocations[1].postId = Some(999)
    /\ GetFailed(1) /\ ~invocations[1].transport[1].err.isError
    /\ invocations[2].method = "fetchAllPosts"
    /\ GetFailed(2) /\ ~invocations[2].transport[1].err.isError
    /\ invocations[1].pc = "thrown" /\ invocations[2].pc = "thrown"

-----------------------------------------------------------------------------
(* Properties of ApiDataController *)

\* the :id segments that write an integer
IntegerIds == { <<"1">>, <<"9", "9", "9">> }

\* C21: a request GET /api/posts/:id whose id is not an integer is answered
\* by the routing layer (status 400) and makes no invocation of the service;
\* every invocation of fetchPostById, and every GET, belongs to a request
\* whose id is an integer (or to a request GET /api/posts).
C21_NonIntegerRejected ==
    /\ \A r \in 1..Len(requests) :
          (requests[r].route = "posts/:id" /\ requests[r].raw \notin IntegerIds)
              => /\ requests[r].rejected = Some(400)
                 /\ requests[r].invocation = 0
    /\ Len(invocations) =
           Cardinality({r \in 1..Len(requests) :
                           \/ requests[r].route = "posts"
                           \/ requests[r].raw \in IntegerIds})
    /\ \A c \in 1..Len(invocations) :
          invocations[c].method = "fetchPostById"
              => invocations[c].postId \in {Some(1), Some(999)}
    /\ Len(gets) = Len(invocations)

\* C21 witness: a request for id '1.5' and one for id '12a' were rejected,
\* then a request for id '999' reached the service, which made its GET
C21_Witness ==
    /\ Len(requests) = 3
    /\ requests[1].raw = <<"1", ".", "5">> /\ requests[1].rejected = Some(400)
    /\ requests[2].raw = <<"1", "2", "a">> /\ requests[2].rejected = Some(400)
    /\ requests[3].raw = <<"9", "9", "9">> /\ requests[3].invocation = 1
    /\ Len(gets) = 1
    /\ gets[1].url = "https://jsonplaceholder.typicode.com/posts/999"

====
